---- MODULE Spec2Model ----
(***************************************************************************)
(* The survey block (src/unnamed/part_001, the refactored revision of      *)
(* decorate): the session state held in decorate's closure, the survey     *)
(* area of the page, and the handlers for the call-to-action, the inputs   *)
(* and the Back / Next buttons.                                            *)
(*                                                                         *)
(* JavaScript strings are tuples of one-character strings, so that         *)
(* replace(/[a-z]$/, ''), split(','), trim() and parseInt work on          *)
(* characters.  Array indices are 0-based as in the code: At(a, i) is a[i].*)
(***************************************************************************)
EXTENDS Integers, Sequences, FiniteSets, TLC

VARIABLES
  bank,                  \* the question bank the remote endpoint publishes
  surveyData,            \* let surveyData = []
  currentQuestionIndex,  \* let currentQuestionIndex = 0
  surveyAnswers,         \* let surveyAnswers = {}
  originalContent,       \* let originalContent = ''
  surveyArea,            \* what the survey-area element currently holds
  pending,               \* activations suspended at the await of the fetch
  notified,              \* the alerts raised by the handler that ran last
  session,               \* Idle / Showing / Complete of the Navigator
  decorated,             \* block.dataset.decorated === '1'
  block,                 \* the regions of the block and what decorate hung on them
  fnInput,               \* argument of a pure function under check
  fnOutput               \* its result

vars == <<bank, surveyData, currentQuestionIndex, surveyAnswers, originalContent,
          surveyArea, pending, notified, session, decorated, block, fnInput,
          fnOutput>>

----------------------------------------------------------------------------
(* Bounds of the model *)

MaxLen == 3

MaxPending == 2

MaxScanLen == 4

MaxLoadLen == 3

MaxMappings == 2

----------------------------------------------------------------------------
(* Strings and arrays *)

At(a, i) == a[i + 1]

Last(a) == a[Len(a)]

LowerCase ==
  {"a", "b", "c", "d", "e", "f", "g", "h", "i", "j", "k", "l", "m",
   "n", "o", "p", "q", "r", "s", "t", "u", "v", "w", "x", "y", "z"}

\* id.replace(/[a-z]$/, '')
StripSuffix(id) ==
  IF Len(id) > 0 /\ Last(id) \in LowerCase
    THEN SubSeq(id, 1, Len(id) - 1)
    ELSE id

Digits == <<"0", "1", "2", "3", "4", "5", "6", "7", "8", "9">>

IsDigit(c) == \E d \in 1..10 : Digits[d] = c

DigitValue(c) == (CHOOSE d \in 1..10 : Digits[d] = c) - 1

RECURSIVE LeadingDigits(_, _)
LeadingDigits(s, acc) ==
  IF s # <<>> /\ IsDigit(Head(s))
    THEN LeadingDigits(Tail(s), acc * 10 + DigitValue(Head(s)))
    ELSE acc

\* parseInt(s, 10) of an unsigned decimal string; NaN when no digit leads
parseInt(s) ==
  IF s # <<>> /\ IsDigit(Head(s))
    THEN [nan |-> FALSE, val |-> LeadingDigits(s, 0)]
    ELSE [nan |-> TRUE, val |-> 0]

RECURSIVE SplitAcc(_, _, _)
SplitAcc(s, piece, done) ==
  IF s = <<>> THEN Append(done, piece)
  ELSE IF Head(s) = "," THEN SplitAcc(Tail(s), <<>>, Append(done, piece))
  ELSE SplitAcc(Tail(s), Append(piece, Head(s)), done)

\* s.split(',')
Split(s) == SplitAcc(s, <<>>, <<>>)

RECURSIVE TrimStart(_)
TrimStart(s) == IF s # <<>> /\ Head(s) = " " THEN TrimStart(Tail(s)) ELSE s

RECURSIVE TrimEnd(_)
TrimEnd(s) ==
  IF s # <<>> /\ Last(s) = " " THEN TrimEnd(SubSeq(s, 1, Len(s) - 1)) ELSE s

\* s.trim()
Trim(s) == TrimEnd(TrimStart(s))

\* the truthiness of a string
Truthy(s) == s # <<>>

----------------------------------------------------------------------------
(* Survey configuration constants *)

MANDATORY_TRUE == "TRUE"

QUESTION_TYPE == "question"

FACT_TYPE == "fact"

SLIDER_TYPE == "slider"

RADIO_TYPE == "radio"

----------------------------------------------------------------------------
(* Question records as the endpoint delivers them.  Options is a tagged    *)
(* value: a string (s), a list of strings (l) or absent.                   *)

OptionsString(s) == [t |-> "string", s |-> s, l |-> <<>>]

OptionsList(l) == [t |-> "list", s |-> <<>>, l |-> l]

OptionsAbsent == [t |-> "undefined", s |-> <<>>, l |-> <<>>]

Q2 == <<"q", "2">>

Q2a == <<"q", "2", "a">>

Q2b == <<"q", "2", "b">>

Q3a == <<"q", "3", "a">>

\* an informational slide, flagged mandatory, no options
FactSlide ==
  [ContentType |-> FACT_TYPE, OptionType |-> "none", Options |-> OptionsAbsent,
   Mandatory |-> MANDATORY_TRUE, CountsAsQuestion |-> "FALSE"]

\* a mandatory radio question, options delivered as a list
RadioMandatory ==
  [ContentType |-> QUESTION_TYPE, OptionType |-> RADIO_TYPE,
   Options |-> OptionsList(<< <<"A">>, <<"B">> >>),
   Mandatory |-> MANDATORY_TRUE, CountsAsQuestion |-> "TRUE"]

\* an optional radio question, options delivered as the string "A,B"
RadioOptional ==
  [ContentType |-> QUESTION_TYPE, OptionType |-> RADIO_TYPE,
   Options |-> OptionsString(<<"A", ",", "B">>),
   Mandatory |-> "FALSE", CountsAsQuestion |-> "TRUE"]

\* a mandatory slider question, options delivered as the string "A, "
SliderMandatory ==
  [ContentType |-> QUESTION_TYPE, OptionType |-> SLIDER_TYPE,
   Options |-> OptionsString(<<"A", ",", " ">>),
   Mandatory |-> MANDATORY_TRUE, CountsAsQuestion |-> "TRUE"]

\* the records a bank is made of: <<ContentId, the rest of the record>>
Catalogue ==
  { <<Q2, FactSlide>>, <<Q2, RadioMandatory>>, <<Q2, RadioOptional>>,
    <<Q2a, SliderMandatory>>, <<Q2a, RadioMandatory>>,
    <<Q2b, SliderMandatory>>, <<Q2b, RadioMandatory>>,
    <<Q3a, SliderMandatory>>, <<Q3a, FactSlide>> }

Record(id, p, order) ==
  [ContentId |-> id, Order |-> order, ContentType |-> p.ContentType,
   OptionType |-> p.OptionType, Options |-> p.Options,
   Mandatory |-> p.Mandatory, CountsAsQuestion |-> p.CountsAsQuestion]

\* the decimal string of a position
OrderOf(i) == <<Digits[i + 1]>>

Distinct(ids) == \A i, j \in DOMAIN ids : i # j => ids[i] # ids[j]

\* ContentId is a unique key, Order is the position in the bank
BanksOfLen(n) ==
  { [i \in 1..n |-> Record(f[i][1], f[i][2], OrderOf(i))] :
      f \in { g \in [1..n -> Catalogue] :
                Distinct([i \in 1..n |-> g[i][1]]) } }

Reverse(a) == [i \in 1..Len(a) |-> a[Len(a) + 1 - i]]

\* the JSON documents a fetch of the bank b can resolve to: its records in
\* ascending or descending Order under data, or a document without data
Responses(b) ==
  { [hasData |-> TRUE, data |-> b],
    [hasData |-> TRUE, data |-> Reverse(b)],
    [hasData |-> FALSE, data |-> <<>>] }

----------------------------------------------------------------------------
(* Data Loader *)

\* item.Options = item.Options.split(',').map((opt) => opt.trim())
normalizeOptions(item) ==
  IF item.Options.t = "string" /\ Truthy(item.Options.s)
    THEN LET pieces == Split(item.Options.s)
         IN [item EXCEPT !.Options =
                OptionsList([k \in 1..Len(pieces) |-> Trim(pieces[k])])]
    ELSE item

\* C17 mutant: the comparator sorts descending
compareOrderDescending(a, b) == parseInt(b.Order).val - parseInt(a.Order).val

\* (a, b) => parseInt(a.Order, 10) - parseInt(b.Order, 10); NaN compares as 0
compareOrder(a, b) ==
  LET x == parseInt(a.Order)
      y == parseInt(b.Order)
  IN IF x.nan \/ y.nan THEN 0 ELSE x.val - y.val

\* insert x behind every element that does not sort after it (stable)
RECURSIVE InsertByOrder(_, _)
InsertByOrder(sorted, x) ==
  IF sorted = <<>> THEN <<x>>
  ELSE IF compareOrder(Last(sorted), x) <= 0 THEN Append(sorted, x)
  ELSE Append(InsertByOrder(SubSeq(sorted, 1, Len(sorted) - 1), x), Last(sorted))

RECURSIVE SortByOrder(_, _)
SortByOrder(rest, sorted) ==
  IF rest = <<>> THEN sorted
  ELSE SortByOrder(Tail(rest), InsertByOrder(sorted, Head(rest)))

parseSurveyData(surveyResponse) ==
  LET questions == IF surveyResponse.hasData THEN surveyResponse.data ELSE <<>>
      normalizedQuestions ==
        [i \in 1..Len(questions) |-> normalizeOptions(questions[i])]
  IN SortByOrder(normalizedQuestions, <<>>)

----------------------------------------------------------------------------
(* Validation and grouping helpers *)

\* C22 mutant: the content type is not looked at
isAnswerRequiredMandatoryOnly(question) == question.Mandatory = MANDATORY_TRUE

isAnswerRequired(question) ==
  /\ question.Mandatory = MANDATORY_TRUE
  /\ question.ContentType = QUESTION_TYPE

\* C2 mutant: the validation accepts a missing answer
hasValidAnswerAlways(question, answers) == TRUE

\* answers[question.ContentId] != null
hasValidAnswer(question, answers) == question.ContentId \in DOMAIN answers

RECURSIVE scanRelated(_, _, _, _)
scanRelated(data, baseId, i, relatedQuestions) ==
  IF i < Len(data)
    THEN LET currentQuestion == At(data, i)
             currentBaseId == StripSuffix(currentQuestion.ContentId)
         IN IF currentBaseId = baseId /\ currentBaseId # currentQuestion.ContentId
              THEN scanRelated(data, baseId, i + 1,
                               Append(relatedQuestions, currentQuestion))
              ELSE relatedQuestions
    ELSE relatedQuestions

\* C7 mutant: the early return for a start id without suffix is missing
findRelatedQuestionsUnguarded(data, startIndex) ==
  scanRelated(data, StripSuffix(At(data, startIndex).ContentId), startIndex + 1,
              <<At(data, startIndex)>>)

findRelatedQuestions(data, startIndex) ==
  LET baseId == StripSuffix(At(data, startIndex).ContentId)
  IN IF baseId = At(data, startIndex).ContentId
       THEN <<At(data, startIndex)>>
       ELSE scanRelated(data, baseId, startIndex + 1, <<At(data, startIndex)>>)

----------------------------------------------------------------------------
(* Renderer.  A view is what the survey area holds: the call-to-action, or *)
(* one step with its progress chrome and input controls.                   *)

\* createButton('btn-back', 'Back') / createButton('btn-next', 'Next');
\* count is the number of click listeners on the button
NavButton(name) == [name |-> name, count |-> 0]

\* picture says whether the background image markup is in the area: "none",
\* "original" (the elements decorate has found) or "copy" (elements parsed
\* from saved markup)
View(kind, index, controls, questionsCompleted, totalActualQuestions) ==
  [kind |-> kind, index |-> index, controls |-> controls,
   nav |-> IF kind = "step" THEN <<NavButton("btn-back"), NavButton("btn-next")>>
                            ELSE <<>>,
   picture |-> "none",
   questionsCompleted |-> questionsCompleted,
   totalActualQuestions |-> totalActualQuestions,
   \* (questionsCompleted / totalActualQuestions) * 100 as the exact fraction
   \* num / den; 0 / 0 is NaN
   progress |-> [num |-> questionsCompleted * 100, den |-> totalActualQuestions]]

\* the first region of the block as authored: logo, intro and button are
\* still its siblings
UndecoratedArea == View("area", 0, <<>>, 0, 0)

\* the markup decorate leaves in the survey area: logo, intro and the
\* call-to-action button, which carries no listener yet
CtaView ==
  View("cta", 0,
       <<[type |-> "button", name |-> <<>>, options |-> <<>>, listener |-> <<>>,
          count |-> 0]>>,
       0, 0)

\* the empty string
EmptyContent == View("empty", 0, <<>>, 0, 0)

Countable(data, n) ==
  Cardinality({i \in 1..n : data[i].CountsAsQuestion = "TRUE"})

\* C26 mutant: the record at currentIndex is left out of the count
calculateProgressExclusive(currentIndex, data) ==
  [questionsCompleted |-> Countable(data, currentIndex),
   totalActualQuestions |-> Countable(data, Len(data))]

calculateProgress(currentIndex, data) ==
  [questionsCompleted |-> Countable(data, currentIndex + 1),
   totalActualQuestions |-> Countable(data, Len(data))]

\* an input control; listener is the ContentId its listener writes to, count
\* the number of listeners attached to it
Control(type, name, options) ==
  [type |-> type, name |-> name, options |-> options, listener |-> <<>>,
   count |-> 0]

\* options.map(...) of createRadioOptions / createSlider needs an array
IsArray(options) == options.t = "list"

createQuestion(questionData, currentIndex, data) ==
  LET p == calculateProgress(currentIndex, data)
      relatedQuestions == findRelatedQuestions(data, currentIndex)
      hasMultipleQuestions == Len(relatedQuestions) > 1
      step(controls) ==
        [threw |-> FALSE,
         view |-> View("step", currentIndex, controls,
                       p.questionsCompleted, p.totalActualQuestions)]
      failed == [threw |-> TRUE, view |-> EmptyContent]
  IN IF questionData.ContentType = FACT_TYPE THEN step(<<>>)
     ELSE IF questionData.OptionType = RADIO_TYPE
       THEN IF IsArray(questionData.Options)
              THEN step(<<Control(RADIO_TYPE, questionData.ContentId,
                                  questionData.Options.l)>>)
              ELSE failed
     ELSE IF questionData.OptionType = SLIDER_TYPE
       THEN IF hasMultipleQuestions
              THEN IF \A i \in 1..Len(relatedQuestions) :
                        IsArray(relatedQuestions[i].Options)
                     THEN step([i \in 1..Len(relatedQuestions) |->
                                 Control(SLIDER_TYPE, relatedQuestions[i].ContentId,
                                         relatedQuestions[i].Options.l)])
                     ELSE failed
              ELSE IF IsArray(questionData.Options)
                     THEN step(<<Control(SLIDER_TYPE, questionData.ContentId,
                                         questionData.Options.l)>>)
                     ELSE failed
     ELSE step(<<>>)

\* banks every step of which renders
WellFormed(b) ==
  LET data == parseSurveyData([hasData |-> TRUE, data |-> b])
  IN \A i \in 0..(Len(data) - 1) : ~createQuestion(At(data, i), i, data).threw

Banks == UNION {{b \in BanksOfLen(n) : WellFormed(b)} : n \in 0..MaxLen}

----------------------------------------------------------------------------
(* The closure state of decorate as one record, and the handlers as        *)
(* functions from it.  threw says that the handler ended in an exception.  *)

Here ==
  [surveyData |-> surveyData, currentQuestionIndex |-> currentQuestionIndex,
   surveyAnswers |-> surveyAnswers, originalContent |-> originalContent,
   surveyArea |-> surveyArea, session |-> session, decorated |-> decorated,
   block |-> block,
   notified |-> <<>>, threw |-> FALSE]

alert(S, message) == [S EXCEPT !.notified = Append(@, message)]

\* surveyAnswers[questionId] = value
Answer(answers, questionId, value) ==
  [id \in DOMAIN answers \cup {questionId} |->
     IF id = questionId THEN value ELSE answers[id]]

\* if (surveyAnswers[questionData.ContentId])
HasTruthyAnswer(answers, questionId) ==
  questionId \in DOMAIN answers /\ Truthy(answers[questionId])

\* the slider branch: every slider gets its listener, and a slider without
\* a truthy answer records the option at its initial value '0'
RECURSIVE initSliders(_, _, _)
initSliders(answers, controls, i) ==
  IF i > Len(controls) THEN answers
  ELSE LET questionId == controls[i].listener
       IN IF HasTruthyAnswer(answers, questionId)
            THEN initSliders(answers, controls, i + 1)
            ELSE initSliders(Answer(answers, questionId, At(controls[i].options, 0)),
                             controls, i + 1)

\* C12 mutant: the sliders get their listeners and no default is recorded
attachInputListenersNoDefault(S) ==
  LET relatedQuestions == findRelatedQuestions(S.surveyData, S.currentQuestionIndex)
      controls == S.surveyArea.controls
  IN [S EXCEPT !.surveyArea.controls =
        [i \in 1..Len(controls) |->
           [controls[i] EXCEPT !.listener = relatedQuestions[i].ContentId,
                               !.count = @ + 1]]]

attachInputListeners(S) ==
  LET currentQuestion == At(S.surveyData, S.currentQuestionIndex)
      relatedQuestions == findRelatedQuestions(S.surveyData, S.currentQuestionIndex)
      controls == S.surveyArea.controls
  IN IF currentQuestion.OptionType = SLIDER_TYPE
       THEN LET sliders == [i \in 1..Len(controls) |->
                              [controls[i] EXCEPT
                                 !.listener = relatedQuestions[i].ContentId,
                                 !.count = @ + 1]]
            IN [S EXCEPT !.surveyArea.controls = sliders,
                         !.surveyAnswers = initSliders(@, sliders, 1)]
     ELSE IF currentQuestion.OptionType = RADIO_TYPE
       THEN [S EXCEPT !.surveyArea.controls =
               [i \in 1..Len(controls) |->
                  IF controls[i].name = currentQuestion.ContentId
                    THEN [controls[i] EXCEPT !.listener = currentQuestion.ContentId,
                                             !.count = @ + 1]
                    ELSE controls[i]]]
     ELSE S

\* C28 mutant: every navigation button gets its listener twice
attachNavigationListenersTwice(S) ==
  LET nav == S.surveyArea.nav
  IN [S EXCEPT !.surveyArea.nav =
        [i \in 1..Len(nav) |-> [nav[i] EXCEPT !.count = @ + 2]]]

\* element.addEventListener('click', () => handleNavigation(direction))
attachNavigationListeners(S) ==
  LET nav == S.surveyArea.nav
  IN [S EXCEPT !.surveyArea.nav =
        [i \in 1..Len(nav) |-> [nav[i] EXCEPT !.count = @ + 1]]]

\* surveyArea.className = 'survey-area': the area element keeps that class only
resetClassName(blk) ==
  IF blk.children >= 1
    THEN [blk EXCEPT !.classes[1] = {"survey-area"}]
    ELSE blk

showQuestion(S, index) ==
  LET S1 == [S EXCEPT !.currentQuestionIndex = index]
  IN IF index >= Len(S.surveyData)
       THEN [S1 EXCEPT !.threw = TRUE]   \* questionData is undefined
       ELSE LET made == createQuestion(At(S.surveyData, index), index, S.surveyData)
            IN IF made.threw
                 THEN [S1 EXCEPT !.threw = TRUE]
                 ELSE attachInputListeners(
                        attachNavigationListeners(
                          [S1 EXCEPT !.surveyArea = made.view,
                                     !.block = resetClassName(@),
                                     !.session = "Showing"]))

\* C9 mutant: the activation does not reset surveyAnswers
startSurveyKeepingAnswers(S, data) ==
  LET S1 == [S EXCEPT !.surveyData = parseSurveyData(data),
                      !.currentQuestionIndex = 0]
      shown == showQuestion(S1, 0)
  IN IF shown.threw
       THEN alert([shown EXCEPT !.threw = FALSE], "load-failed")
       ELSE shown

\* the part of handleGetStartedClick that runs once the fetch has resolved
startSurvey(S, data) ==
  LET S1 == [S EXCEPT !.surveyData = parseSurveyData(data),
                      !.currentQuestionIndex = 0,
                      !.surveyAnswers = <<>>]
      shown == showQuestion(S1, 0)
  IN IF shown.threw
       THEN alert([shown EXCEPT !.threw = FALSE], "load-failed")
       ELSE shown

\* C23 mutant: only the first question of the group is validated
validateQuestionsFirstOnly(S, relatedQuestions) ==
  IF /\ isAnswerRequired(relatedQuestions[1])
     /\ ~hasValidAnswer(relatedQuestions[1], S.surveyAnswers)
    THEN [ok |-> FALSE,
          message |-> IF Len(relatedQuestions) > 1 THEN "select-all"
                                                   ELSE "select-one"]
    ELSE [ok |-> TRUE, message |-> ""]

validateQuestions(S, relatedQuestions) ==
  LET invalidQuestions ==
        {i \in 1..Len(relatedQuestions) :
           /\ isAnswerRequired(relatedQuestions[i])
           /\ ~hasValidAnswer(relatedQuestions[i], S.surveyAnswers)}
  IN IF invalidQuestions # {}
       THEN [ok |-> FALSE,
             message |-> IF Len(relatedQuestions) > 1 THEN "select-all"
                                                      ELSE "select-one"]
       ELSE [ok |-> TRUE, message |-> ""]

RECURSIVE walkBack(_, _, _)
walkBack(data, targetBaseId, index) ==
  IF index > 0
    THEN LET prevQ == At(data, index - 1)
             prevBaseId == StripSuffix(prevQ.ContentId)
         IN IF prevBaseId = targetBaseId /\ prevBaseId # prevQ.ContentId
              THEN walkBack(data, targetBaseId, index - 1)
              ELSE index
    ELSE index

\* C6 mutant: back does not walk to the start of the group
findGroupStartNoWalk(data, startIndex) == startIndex

findGroupStart(data, startIndex) ==
  LET targetQuestion == At(data, startIndex)
      targetBaseId == StripSuffix(targetQuestion.ContentId)
  IN IF targetBaseId = targetQuestion.ContentId
       THEN startIndex
       ELSE walkBack(data, targetBaseId, startIndex)

\* C5 mutant: next does not skip the members of the displayed group
getNextQuestionIndexSingle(S) == S.currentQuestionIndex + 1

getNextQuestionIndex(S) ==
  LET relatedQuestions == findRelatedQuestions(S.surveyData, S.currentQuestionIndex)
      questionsToSkip == Len(relatedQuestions) - 1
  IN S.currentQuestionIndex + 1 + questionsToSkip

\* the handler a click listener of the call-to-action button runs
GetStartedHandler == <<"handleGetStartedClick">>

\* surveyArea.innerHTML read: the markup, which carries no listeners and
\* from which new elements are made when it is written back
innerHTML(area) ==
  [area EXCEPT
     !.controls = [i \in 1..Len(area.controls) |->
                     [area.controls[i] EXCEPT !.listener = <<>>, !.count = 0]],
     !.nav = [i \in 1..Len(area.nav) |-> [area.nav[i] EXCEPT !.count = 0]],
     !.picture = IF @ = "none" THEN "none" ELSE "copy"]

\* attachListeners([getStartedButton], 'click', handleGetStartedClick)
attachGetStartedListener(S) ==
  LET controls == S.surveyArea.controls
  IN [S EXCEPT !.surveyArea.controls =
        [i \in 1..Len(controls) |->
           IF controls[i].type = "button"
             THEN [controls[i] EXCEPT !.listener = GetStartedHandler,
                                      !.count = @ + 1]
             ELSE controls[i]]]

\* the call-to-action button is in the survey area and has its click listener
hasClickListener(area) ==
  \E i \in 1..Len(area.controls) :
    area.controls[i].type = "button" /\ area.controls[i].listener = GetStartedHandler

\* C19 mutant: back restores the markup and leaves the button without listener
onSurveyBackNoListener(S) ==
  IF S.currentQuestionIndex = 0
    THEN [S EXCEPT !.surveyArea = S.originalContent, !.session = "Idle"]
    ELSE showQuestion(S, findGroupStart(S.surveyData, S.currentQuestionIndex - 1))

\* surveyArea.addEventListener('survey:back', ...)
onSurveyBack(S) ==
  IF S.currentQuestionIndex = 0
    THEN attachGetStartedListener(
           [S EXCEPT !.surveyArea = S.originalContent, !.session = "Idle"])
    ELSE showQuestion(S, findGroupStart(S.surveyData, S.currentQuestionIndex - 1))

\* surveyArea.addEventListener('survey:next', ...)
onSurveyNext(S) ==
  LET nextIndex == getNextQuestionIndex(S)
  IN IF nextIndex < Len(S.surveyData)
       THEN showQuestion(S, nextIndex)
       ELSE [alert(S, "completed") EXCEPT !.session = "Complete"]

\* surveyArea.dispatchEvent(new CustomEvent(`survey:${direction}`)): every
\* listener registered on the area for the event runs, n of them
RECURSIVE dispatchEvent(_, _, _)
dispatchEvent(S, direction, n) ==
  IF n = 0 \/ S.threw THEN S
  ELSE dispatchEvent(IF direction = "next" THEN onSurveyNext(S) ELSE onSurveyBack(S),
                     direction, n - 1)

handleNavigation(S, direction) ==
  IF direction = "next"
    THEN IF S.currentQuestionIndex >= Len(S.surveyData)
           THEN [S EXCEPT !.threw = TRUE]   \* surveyData[startIndex] is undefined
           ELSE LET relatedQuestions ==
                      findRelatedQuestions(S.surveyData, S.currentQuestionIndex)
                    checked == validateQuestions(S, relatedQuestions)
                IN IF ~checked.ok THEN alert(S, checked.message)
                                  ELSE dispatchEvent(S, "next", S.block.areaHandlers)
    ELSE dispatchEvent(S, "back", S.block.areaHandlers)

\* a click on a navigation button runs every click listener it carries
RECURSIVE clickNavigation(_, _, _)
clickNavigation(S, direction, n) ==
  IF n = 0 THEN S
  ELSE clickNavigation(handleNavigation(S, direction), direction, n - 1)

\* C13 mutant: every listener writes to the question of the first control
handleInputFirstControl(S, c, k) ==
  [S EXCEPT !.surveyAnswers =
     Answer(@, S.surveyArea.controls[1].listener, At(S.surveyArea.controls[c].options, k))]

\* handleSliderInput / handleRadioChange of the control at position c,
\* moved to (slider) or set on (radio) its option at index k
handleInput(S, c, k) ==
  LET control == S.surveyArea.controls[c]
  IN [S EXCEPT !.surveyAnswers = Answer(@, control.listener, At(control.options, k))]

\* addClassIf(element, className); element 0 is null
addClassIf(classes, element, className) ==
  IF element = 0 THEN classes
  ELSE [classes EXCEPT ![element] = @ \cup {className}]

\* the body of decorate behind its marker test.  The regions are the child
\* divs of the block, numbered in document order; nth-child(1..3) and
\* last-child are captured before anything moves.
bootstrap(S) ==
  LET n == S.block.children
      area == IF n >= 1 THEN 1 ELSE 0
      logo == IF n >= 2 THEN 2 ELSE 0
      content == IF n >= 3 THEN 3 ELSE 0
      footer == n
      tagged ==
        addClassIf(
          addClassIf(
            addClassIf(
              addClassIf(S.block.classes, area, "survey-area"),
              logo, "logo"),
            content, "content"),
          footer, "footer-content")
      \* moveNode(logo, ...), moveNode(content, ...): the content region
      \* brings the call-to-action button into the area
      promoted ==
        IF S.surveyArea.kind = "area"
          THEN [(IF content # 0 THEN CtaView ELSE View("cta", 0, <<>>, 0, 0))
                  EXCEPT !.picture = S.surveyArea.picture]
          ELSE S.surveyArea
      S1 == [S EXCEPT
               !.decorated = TRUE,
               !.block = [@ EXCEPT
                            !.classes = tagged,
                            !.decode =
                              IF area # 0 /\ S.surveyArea.picture = "original"
                                THEN "pending" ELSE @,
                            !.areaHandlers = IF area # 0 THEN @ + 1 ELSE @],
               !.surveyArea = promoted,
               !.surveyData = <<>>,
               !.currentQuestionIndex = 0,
               !.surveyAnswers = <<>>,
               !.originalContent = EmptyContent]
  IN IF area # 0 THEN attachGetStartedListener(S1) ELSE S1

\* C20 mutant: decorate without the one-time marker check
decorateUnguarded(S) == bootstrap(S)

\* decorate(block): marks the block, tags the regions, moves logo and content
\* into the survey area, creates the session state and attaches the
\* call-to-action listener
decorate(S) == IF S.decorated THEN S ELSE bootstrap(S)

\* applyBackgroundAndRemove: the image wrapper is taken out of its parent;
\* a wrapper that is no longer in the area has no parent in the page
applyBackgroundAndRemove(S) ==
  [S EXCEPT !.surveyArea.picture = IF @ = "original" THEN "none" ELSE @,
            !.block.classes[1] = @ \cup {"has-background"},
            !.block.decode = "settled"]

\* the block as authored, with n child regions; decode is the state of the
\* img.decode() promise: "none" (never called), "pending" or "settled"
AuthoredBlock(n) ==
  [children |-> n, classes |-> [e \in 1..n |-> {}], areaHandlers |-> 0,
   decode |-> "none"]

\* the click listeners on the call-to-action button
getStartedClicks(area) ==
  IF \E i \in 1..Len(area.controls) : area.controls[i].type = "button"
    THEN area.controls[CHOOSE i \in 1..Len(area.controls) :
                         area.controls[i].type = "button"].count
    ELSE 0

----------------------------------------------------------------------------
(* The page: one action per event the block handles *)

Apply(S) ==
  /\ surveyData' = S.surveyData
  /\ currentQuestionIndex' = S.currentQuestionIndex
  /\ surveyAnswers' = S.surveyAnswers
  /\ originalContent' = S.originalContent
  /\ surveyArea' = S.surveyArea
  /\ session' = S.session
  /\ decorated' = S.decorated
  /\ block' = S.block
  /\ notified' = S.notified

Init ==
  /\ bank \in Banks
  /\ surveyData = <<>>
  /\ currentQuestionIndex = 0
  /\ surveyAnswers = <<>>
  /\ originalContent = EmptyContent
  /\ surveyArea = UndecoratedArea
  /\ pending = 0
  /\ notified = <<>>
  /\ session = "Idle"
  /\ decorated = FALSE
  /\ block = AuthoredBlock(4)
  /\ fnInput = <<>>
  /\ fnOutput = <<>>

\* the page framework calls decorate on the block, any number of times
Decorate ==
  /\ Apply(decorate(Here))
  /\ UNCHANGED <<bank, pending, fnInput, fnOutput>>

\* a click on the call-to-action: handleGetStartedClick up to its await
ClickGetStarted ==
  /\ hasClickListener(surveyArea)
  /\ pending + getStartedClicks(surveyArea) <= MaxPending
  /\ Apply([Here EXCEPT !.originalContent = innerHTML(surveyArea)])
  /\ pending' = pending + getStartedClicks(surveyArea)
  /\ UNCHANGED <<bank, fnInput, fnOutput>>

\* the fetch of a suspended activation resolves with a JSON document
LoadResolve ==
  /\ pending > 0
  /\ \E surveyResponse \in Responses(bank) : Apply(startSurvey(Here, surveyResponse))
  /\ pending' = pending - 1
  /\ UNCHANGED <<bank, fnInput, fnOutput>>

\* the fetch rejects or the body is not JSON: the catch block alone runs
LoadFail ==
  /\ pending > 0
  /\ Apply(alert(Here, "load-failed"))
  /\ pending' = pending - 1
  /\ UNCHANGED <<bank, fnInput, fnOutput>>

\* an input or change event on a control of the displayed step
InputChange ==
  /\ surveyArea.kind = "step"
  /\ \E c \in 1..Len(surveyArea.controls) :
       /\ surveyArea.controls[c].listener # <<>>
       /\ \E k \in 0..(Len(surveyArea.controls[c].options) - 1) :
            Apply(handleInput(Here, c, k))
  /\ UNCHANGED <<bank, pending, fnInput, fnOutput>>

ClickNext ==
  /\ surveyArea.kind = "step"
  /\ Apply(clickNavigation(Here, "next", surveyArea.nav[2].count))
  /\ UNCHANGED <<bank, pending, fnInput, fnOutput>>

ClickBack ==
  /\ surveyArea.kind = "step"
  /\ Apply(clickNavigation(Here, "back", surveyArea.nav[1].count))
  /\ UNCHANGED <<bank, pending, fnInput, fnOutput>>

Next ==
  \/ Decorate
  \/ ClickGetStarted
  \/ LoadResolve
  \/ LoadFail
  \/ InputChange
  \/ ClickNext
  \/ ClickBack

Spec == Init /\ [][Next]_vars

----------------------------------------------------------------------------
\* Bootstrapping of blocks of every authored shape: zero to four child
\* regions, the first one with or without a background picture.

MaxRegions == 4
MaxBootLen == 2

BootBanks == {b \in Banks : Len(b) <= MaxBootLen}

InitBoot ==
  /\ bank \in BootBanks
  /\ surveyData = <<>>
  /\ currentQuestionIndex = 0
  /\ surveyAnswers = <<>>
  /\ originalContent = EmptyContent
  /\ \E n \in 0..MaxRegions :
       /\ block = AuthoredBlock(n)
       /\ \E picture \in (IF n = 0 THEN {"none"} ELSE {"none", "original"}) :
            surveyArea = [UndecoratedArea EXCEPT !.picture = picture]
  /\ pending = 0
  /\ notified = <<>>
  /\ session = "Idle"
  /\ decorated = FALSE
  /\ fnInput = <<>>
  /\ fnOutput = <<>>

\* img.decode() settles, fulfilled or rejected: applyBackgroundAndRemove runs
DecodeSettles ==
  /\ block.decode = "pending"
  /\ Apply(applyBackgroundAndRemove(Here))
  /\ UNCHANGED <<bank, pending, fnInput, fnOutput>>

NextBoot ==
  \/ Decorate
  \/ DecodeSettles
  \/ ClickGetStarted
  \/ LoadResolve
  \/ LoadFail
  \/ InputChange
  \/ ClickNext
  \/ ClickBack

SpecBoot == InitBoot /\ [][NextBoot]_vars

----------------------------------------------------------------------------
(* Related-question scans on their own: findRelatedQuestions applied to    *)
(* lists of ids at every start index.                                      *)

Q5 == <<"q", "5">>

Q5a == <<"q", "5", "a">>

Q5b == <<"q", "5", "b">>

Q5c == <<"q", "5", "c">>

Q6 == <<"q", "6">>

ScanIds == {Q5, Q5a, Q5b, Q5c, Q6}

ScanLists ==
  UNION {[1..n -> {[ContentId |-> id] : id \in ScanIds}] : n \in 1..MaxScanLen}

InitScan ==
  /\ bank = <<>>
  /\ surveyData = <<>>
  /\ currentQuestionIndex = 0
  /\ surveyAnswers = <<>>
  /\ originalContent = EmptyContent
  /\ surveyArea = UndecoratedArea
  /\ pending = 0
  /\ notified = <<>>
  /\ session = "Idle"
  /\ decorated = FALSE
  /\ block = AuthoredBlock(4)
  /\ \E list \in ScanLists : fnInput = [list |-> list, startIndex |-> -1]
  /\ fnOutput = <<>>

Scan ==
  /\ \E startIndex \in 0..(Len(fnInput.list) - 1) :
       /\ fnInput' = [fnInput EXCEPT !.startIndex = startIndex]
       /\ fnOutput' = findRelatedQuestions(fnInput.list, startIndex)
  /\ UNCHANGED <<bank, surveyData, currentQuestionIndex, surveyAnswers,
                 originalContent, surveyArea, pending, notified, session,
                 decorated, block>>

SpecScan == InitScan /\ [][Scan]_vars

----------------------------------------------------------------------------
(* The Data Loader on its own: parseSurveyData applied to the JSON           *)
(* documents a fetch can resolve to.                                        *)

\* a radio question, options delivered as the string "A, B, C"
ThreeOptions ==
  [ContentType |-> QUESTION_TYPE, OptionType |-> RADIO_TYPE,
   Options |-> OptionsString(<<"A", ",", " ", "B", ",", " ", "C">>),
   Mandatory |-> MANDATORY_TRUE, CountsAsQuestion |-> "TRUE"]

\* a fact whose Options cell is the empty string
BlankOptions ==
  [ContentType |-> FACT_TYPE, OptionType |-> "none", Options |-> OptionsString(<<>>),
   Mandatory |-> "FALSE", CountsAsQuestion |-> "FALSE"]

LoadProfiles == {FactSlide, RadioMandatory, ThreeOptions, BlankOptions}

LoadOrders == {<<"1">>, <<"2">>, <<"3">>, <<"1", "0">>}

\* the ContentId of the record at each position of a document
LoadIds == <<Q2, Q2a, Q2b, Q3a, Q5, Q6>>

\* the records of a document: f gives profile and Order of each position
LoadList(f) == [i \in DOMAIN f |-> Record(LoadIds[i], f[i][1], f[i][2])]

\* { data: [...] }
DataDocument(records) ==
  [hasData |-> TRUE, data |-> records, isArray |-> FALSE, elements |-> <<>>]

\* a bare array of records: an array has no property named data
BareArray(records) ==
  [hasData |-> FALSE, data |-> <<>>, isArray |-> TRUE, elements |-> records]

\* any other JSON object, e.g. {}
OtherDocument ==
  [hasData |-> FALSE, data |-> <<>>, isArray |-> FALSE, elements |-> <<>>]

\* the documents that carry the given records: under data, as a bare array,
\* or not at all
LoadInputs(records) == {DataDocument(records), BareArray(records), OtherDocument}

InitLoad ==
  /\ bank = <<>>
  /\ surveyData = <<>>
  /\ currentQuestionIndex = 0
  /\ surveyAnswers = <<>>
  /\ originalContent = EmptyContent
  /\ surveyArea = UndecoratedArea
  /\ pending = 0
  /\ notified = <<>>
  /\ session = "Idle"
  /\ decorated = FALSE
  /\ block = AuthoredBlock(4)
  /\ \E n \in 0..MaxLoadLen :
       \E f \in [1..n -> LoadProfiles \X LoadOrders] :
         fnInput \in LoadInputs(LoadList(f))
  /\ fnOutput = [done |-> FALSE, list |-> <<>>]

Load ==
  /\ ~fnOutput.done
  /\ fnOutput' = [done |-> TRUE, list |-> parseSurveyData(fnInput)]
  /\ UNCHANGED <<bank, surveyData, currentQuestionIndex, surveyAnswers,
                 originalContent, surveyArea, pending, notified, session,
                 decorated, block, fnInput>>

SpecLoad == InitLoad /\ [][Load]_vars

----------------------------------------------------------------------------
(* The path resolution of fetchSurveyData on its own: the target of the     *)
(* final fetch, for an href and the values of the mapping document in the   *)
(* order of Object.entries.                                                 *)

\* s.endsWith(suffix)
endsWith(s, suffix) ==
  /\ Len(s) >= Len(suffix)
  /\ SubSeq(s, Len(s) - Len(suffix) + 1, Len(s)) = suffix

RECURSIVE SplitColonAcc(_, _, _)
SplitColonAcc(s, piece, done) ==
  IF s = <<>> THEN Append(done, piece)
  ELSE IF Head(s) = ":" THEN SplitColonAcc(Tail(s), <<>>, Append(done, piece))
  ELSE SplitColonAcc(Tail(s), Append(piece, Head(s)), done)

\* value.split(':')
SplitColon(s) == SplitColonAcc(s, <<>>, <<>>)

\* mappingEntries.find(...): the position of the first value whose first
\* piece is the href, 0 when there is none
RECURSIVE findMapping(_, _, _)
findMapping(values, surveyHref, i) ==
  IF i > Len(values) THEN 0
  ELSE IF SplitColon(values[i])[1] = surveyHref THEN i
  ELSE findMapping(values, surveyHref, i + 1)

\* the argument of the final fetch; the second piece of a split is undefined
\* when the value has no colon
fetchTarget(surveyHref, values) ==
  IF endsWith(surveyHref, <<"j", "s", "o", "n">>)
    THEN [mappingFetched |-> FALSE, defined |-> TRUE, mapping |-> surveyHref]
    ELSE LET foundMapping == findMapping(values, surveyHref, 1)
         IN IF foundMapping = 0
              THEN [mappingFetched |-> TRUE, defined |-> TRUE, mapping |-> surveyHref]
              ELSE LET pieces == SplitColon(values[foundMapping])
                   IN IF Len(pieces) >= 2
                        THEN [mappingFetched |-> TRUE, defined |-> TRUE,
                              mapping |-> pieces[2]]
                        ELSE [mappingFetched |-> TRUE, defined |-> FALSE,
                              mapping |-> <<>>]

\* "/s", "/t" and "/s.json"
Hrefs ==
  {<<"/", "s">>, <<"/", "t">>, <<"/", "s", ".", "j", "s", "o", "n">>}

\* "/s:/a", "/s:h:/a", "/t:/b", "/s" and "/s.json:/c"
MappingValues ==
  {<<"/", "s", ":", "/", "a">>,
   <<"/", "s", ":", "h", ":", "/", "a">>,
   <<"/", "t", ":", "/", "b">>,
   <<"/", "s">>,
   <<"/", "s", ".", "j", "s", "o", "n", ":", "/", "c">>}

InitFetch ==
  /\ bank = <<>>
  /\ surveyData = <<>>
  /\ currentQuestionIndex = 0
  /\ surveyAnswers = <<>>
  /\ originalContent = EmptyContent
  /\ surveyArea = UndecoratedArea
  /\ pending = 0
  /\ notified = <<>>
  /\ session = "Idle"
  /\ decorated = FALSE
  /\ block = AuthoredBlock(4)
  /\ \E surveyHref \in Hrefs :
       \E n \in 0..MaxMappings :
         \E values \in [1..n -> MappingValues] :
           fnInput = [surveyHref |-> surveyHref, mappings |-> values]
  /\ fnOutput = [done |-> FALSE, mappingFetched |-> FALSE, defined |-> FALSE,
                 mapping |-> <<>>]

Fetch ==
  /\ ~fnOutput.done
  /\ LET target == fetchTarget(fnInput.surveyHref, fnInput.mappings)
     IN fnOutput' = [done |-> TRUE, mappingFetched |-> target.mappingFetched,
                     defined |-> target.defined, mapping |-> target.mapping]
  /\ UNCHANGED <<bank, surveyData, currentQuestionIndex, surveyAnswers,
                 originalContent, surveyArea, pending, notified, session,
                 decorated, block, fnInput>>

SpecFetch == InitFetch /\ [][Fetch]_vars

----------------------------------------------------------------------------
(* Vocabulary of the claims *)

HasSuffix(id) == Len(id) > 0 /\ Last(id) \in LowerCase

Base(id) == SubSeq(id, 1, Len(id) - 1)

\* records i and j (0-based) belong to one related-question group: both ids
\* carry a trailing lowercase letter and agree once it is removed
Related(data, i, j) ==
  /\ HasSuffix(At(data, i).ContentId)
  /\ HasSuffix(At(data, j).ContentId)
  /\ Base(At(data, i).ContentId) = Base(At(data, j).ContentId)

\* the last index of the maximal run of records related to s, from s on
GroupEnd(data, s) ==
  CHOOSE e \in s..(Len(data) - 1) :
    /\ \A k \in (s + 1)..e : Related(data, s, k)
    /\ e + 1 < Len(data) => ~Related(data, s, e + 1)

GroupSize(data, s) == GroupEnd(data, s) - s + 1

\* the first index of the maximal run of records related to t, up to t
GroupStart(data, t) ==
  CHOOSE k \in 0..t :
    /\ \A m \in k..(t - 1) : Related(data, t, m)
    /\ k > 0 => ~Related(data, t, k - 1)

Showing(i) == session = "Showing" /\ currentQuestionIndex = i

\* a step is displayed and the session state still describes it
StepDefined ==
  /\ surveyArea.kind = "step"
  /\ currentQuestionIndex < Len(surveyData)

DisplayedGroup ==
  currentQuestionIndex..GroupEnd(surveyData, currentQuestionIndex)

\* the questions of the displayed group that need an answer and have none
Unanswered ==
  {k \in DisplayedGroup :
     /\ At(surveyData, k).Mandatory = "TRUE"
     /\ At(surveyData, k).ContentType = "question"
     /\ At(surveyData, k).ContentId \notin DOMAIN surveyAnswers}

IsLastStep ==
  currentQuestionIndex + GroupSize(surveyData, currentQuestionIndex) >= Len(surveyData)

ValidationMessages == {"select-one", "select-all"}

Raised(messages) == {messages[i] : i \in 1..Len(messages)}

----------------------------------------------------------------------------
(* The claims *)

\* C1: a next on the last step with validation passing enters Complete, and
\* from Complete no next, back or input event leads to a Showing state: only
\* a new activation from Idle displays a step again.
C1_CompleteIsTerminal ==
  [][/\ (ClickNext /\ session = "Showing" /\ StepDefined
            /\ Unanswered = {} /\ IsLastStep)
          => session' = "Complete"
     /\ (session = "Complete" /\ (ClickNext \/ ClickBack \/ InputChange))
          => session' # "Showing"]_vars

\* C2 as stated: with a mandatory question of the displayed group unanswered,
\* next changes neither index, answers nor the displayed step and raises a
\* validation notification; with all of them answered, next succeeds and
\* advances the index.
C2_NextAdvancesOnceAnswered ==
  [][(ClickNext /\ StepDefined) =>
       IF Unanswered # {}
         THEN /\ currentQuestionIndex' = currentQuestionIndex
              /\ surveyAnswers' = surveyAnswers
              /\ surveyArea' = surveyArea
              /\ Len(notified') = 1
              /\ notified'[1] \in ValidationMessages
         ELSE /\ Raised(notified') \cap ValidationMessages = {}
              /\ currentQuestionIndex' > currentQuestionIndex]_vars

\* C2 as amended: with a mandatory question of the displayed group
\* unanswered, next changes neither index, answers nor the displayed step and
\* raises one validation notification; with all of them answered, next is not
\* blocked: it advances the index, or completes the session when the displayed
\* step is the last one.
C2_ValidationGate ==
  [][(ClickNext /\ StepDefined) =>
       IF Unanswered # {}
         THEN /\ currentQuestionIndex' = currentQuestionIndex
              /\ surveyAnswers' = surveyAnswers
              /\ surveyArea' = surveyArea
              /\ session' = session
              /\ Len(notified') = 1
              /\ notified'[1] \in ValidationMessages
         ELSE /\ Raised(notified') \cap ValidationMessages = {}
              /\ IF IsLastStep
                   THEN /\ session' = "Complete"
                        /\ currentQuestionIndex' = currentQuestionIndex
                   ELSE /\ session' = "Showing"
                        /\ currentQuestionIndex' > currentQuestionIndex]_vars

\* C2 witness: a next was blocked: the validation notification is up and a
\* mandatory question of the displayed group has no answer.
C2_Blocked ==
  /\ StepDefined
  /\ Unanswered # {}
  /\ Len(notified) = 1
  /\ notified[1] \in ValidationMessages

\* C3: from every Showing(i) that is not the last step, a validated next
\* followed by back is Showing(i) again, and every answer present before the
\* next is present with the same value afterwards.
C3_RoundTrip ==
  (session = "Showing" /\ StepDefined /\ Unanswered = {} /\ ~IsLastStep) =>
    LET afterNext == handleNavigation(Here, "next")
        afterBack == handleNavigation([afterNext EXCEPT !.notified = <<>>], "back")
    IN /\ afterBack.session = "Showing"
       /\ afterBack.currentQuestionIndex = currentQuestionIndex
       /\ \A id \in DOMAIN surveyAnswers :
            /\ id \in DOMAIN afterBack.surveyAnswers
            /\ afterBack.surveyAnswers[id] = surveyAnswers[id]

\* the 0-based indices of the countable records
CountableIndices(data) ==
  {k \in 0..(Len(data) - 1) : At(data, k).CountsAsQuestion = "TRUE"}

Max(S) == CHOOSE x \in S : \A y \in S : y <= x

\* C4: with at least one countable question, the step that displays the last
\* countable question shows progress 100 and the counter total/total,
\* whether the step is a single question or a related-question group.
C4_ProgressReaches100 ==
  (/\ session = "Showing" /\ StepDefined
   /\ CountableIndices(surveyData) # {}
   /\ Max(CountableIndices(surveyData)) \in DisplayedGroup)
  => /\ surveyArea.progress.den > 0
     /\ surveyArea.progress.num = 100 * surveyArea.progress.den
     /\ surveyArea.questionsCompleted = Cardinality(CountableIndices(surveyData))
     /\ surveyArea.totalActualQuestions = Cardinality(CountableIndices(surveyData))

\* C5: a validated next from Showing(i) targets j = i + groupSize, the size
\* of the related-question group starting at i (1 for an ungrouped question):
\* it moves to Showing(j) if j < len(questions), to Complete otherwise.
C5_NextTarget ==
  [][(ClickNext /\ session = "Showing" /\ StepDefined /\ Unanswered = {}) =>
       LET j == currentQuestionIndex + GroupSize(surveyData, currentQuestionIndex)
       IN IF j < Len(surveyData)
            THEN /\ session' = "Showing"
                 /\ currentQuestionIndex' = j
                 /\ surveyArea'.kind = "step"
                 /\ surveyArea'.index = j
            ELSE session' = "Complete"]_vars

\* C5 witness: the step behind a group of two is shown, the group's answers
\* recorded: next has skipped the second member of the group.
C5_SkippedGroup ==
  /\ Showing(2)
  /\ StepDefined
  /\ surveyArea.index = 2
  /\ GroupSize(surveyData, 0) = 2
  /\ At(surveyData, 2).ContentId \notin DOMAIN surveyAnswers

\* C6: back from Showing(i), i > 0, moves to Showing(k), k the start of the
\* related-question group that contains question i - 1; back from Showing(0)
\* moves to Idle and restores the call-to-action content saved at activation.
C6_BackTarget ==
  [][(ClickBack /\ session = "Showing" /\ StepDefined) =>
       IF currentQuestionIndex > 0
         THEN LET k == GroupStart(surveyData, currentQuestionIndex - 1)
              IN /\ session' = "Showing"
                 /\ currentQuestionIndex' = k
                 /\ surveyArea'.kind = "step"
                 /\ surveyArea'.index = k
         ELSE /\ session' = "Idle"
              /\ surveyArea'.kind = "cta"
              /\ innerHTML(surveyArea') = originalContent]_vars

\* C6 witness: the group of two at the head is shown again after the step
\* behind it had been shown: back has walked to the start of the group.
C6_BackIntoGroup ==
  /\ Showing(0)
  /\ StepDefined
  /\ Len(surveyData) = 3
  /\ GroupSize(surveyData, 0) = 2
  /\ At(surveyData, 2).ContentId \in DOMAIN surveyAnswers

ExampleIds == <<[ContentId |-> Q5a], [ContentId |-> Q5b],
                [ContentId |-> Q5c], [ContentId |-> Q6]>>

\* C7: findRelatedQuestions(list, s) is the maximal run of consecutive records
\* from s on whose ContentId carries a trailing lowercase letter and, with it
\* removed, equals the stripped id of s; q5a, q5b, q5c, q6 gives three members
\* from q5a and one from q6; a start without such a letter gives exactly one.
C7_MaximalRun ==
  fnInput.startIndex >= 0 =>
    LET list == fnInput.list
        s == fnInput.startIndex
    IN /\ fnOutput = SubSeq(list, s + 1, GroupEnd(list, s) + 1)
       /\ ~HasSuffix(At(list, s).ContentId) => Len(fnOutput) = 1
       /\ (list = ExampleIds /\ s = 0) => Len(fnOutput) = 3
       /\ (list = ExampleIds /\ s = 3) => Len(fnOutput) = 1

\* C7 witness: the scan of q5a, q5b, q5c, q6 from q5a has returned three.
C7_ExampleScanned ==
  /\ fnInput = [list |-> ExampleIds, startIndex |-> 0]
  /\ Len(fnOutput) = 3

\* a load has settled in this step
LoadSettles == LoadResolve \/ LoadFail

\* C8: whenever an activation ends with the load-failure notification, one
\* notification is shown, questions, currentIndex and answers are what they
\* were before, and the session remains in Idle.
C8_FailedLoadLeavesState ==
  [][(LoadSettles /\ "load-failed" \in Raised(notified')) =>
       /\ notified' = <<"load-failed">>
       /\ surveyData' = surveyData
       /\ currentQuestionIndex' = currentQuestionIndex
       /\ surveyAnswers' = surveyAnswers
       /\ session = "Idle"
       /\ session' = "Idle"]_vars

\* the answers a freshly shown step records by itself: the option at index 0
\* of each of its sliders
FreshDefaults(area, answers) ==
  \A id \in DOMAIN answers :
    \E c \in 1..Len(area.controls) :
      /\ area.controls[c].type = "slider"
      /\ area.controls[c].listener = id
      /\ answers[id] = At(area.controls[c].options, 0)

\* C9: Idle -> Showing(0) happens only when a load has delivered a question
\* list; then currentIndex is 0, step 0 is displayed and answers holds nothing
\* of an earlier session (only what showing step 0 records by itself).
C9_ActivationResets ==
  [][(session = "Idle" /\ session' = "Showing") =>
       /\ pending > 0
       /\ pending' = pending - 1
       /\ \E surveyResponse \in Responses(bank) :
            /\ surveyResponse.hasData
            /\ surveyData' = parseSurveyData(surveyResponse)
       /\ Len(surveyData') > 0
       /\ currentQuestionIndex' = 0
       /\ surveyArea'.kind = "step"
       /\ surveyArea'.index = 0
       /\ FreshDefaults(surveyArea', surveyAnswers')]_vars

\* C9 witness: step 0 of a loaded list is displayed, the load has settled and
\* no answer is recorded.
C9_FreshSession ==
  /\ Showing(0)
  /\ StepDefined
  /\ pending = 0
  /\ DOMAIN surveyAnswers = {}
  /\ originalContent = CtaView

\* C10: back from Showing(0) discards the session: in the resulting Idle
\* state questions and answers are empty.
C10_BackDiscardsSession ==
  [][(ClickBack /\ Showing(0)) =>
       /\ session' = "Idle"
       /\ surveyData' = <<>>
       /\ DOMAIN surveyAnswers' = {}]_vars

\* the session state of the Navigator
SessionState == <<surveyData, currentQuestionIndex, surveyAnswers>>

\* C11: once the session is in Showing, questions, currentIndex and answers
\* change only through the input, next and back events of the displayed
\* session, also when the call-to-action had been activated more than once
\* before the first response arrived.
C11_OnlyOwnEvents ==
  [][(session = "Showing" /\ SessionState' # SessionState) =>
       (InputChange \/ ClickNext \/ ClickBack)]_vars

\* this step has displayed a step: a load, a next or a back whose
\* showQuestion ran to its end, without a notification
StepShown ==
  /\ LoadResolve \/ ClickNext \/ ClickBack
  /\ notified' = <<>>
  /\ surveyArea'.kind = "step"
  /\ currentQuestionIndex' < Len(surveyData')

\* C12: once a step with slider controls has been shown, answers holds an
\* entry for every question rendered as a slider in it; the entry is the option
\* at index 0 when the session is new or the slider had no entry, and a recorded
\* default stays the default: no interaction is needed for it.
C12_SliderDefault ==
  [][StepShown =>
       \A c \in 1..Len(surveyArea'.controls) :
         LET control == surveyArea'.controls[c]
             first == At(control.options, 0)
         IN control.type = "slider" =>
              /\ control.name \in DOMAIN surveyAnswers'
              /\ (\/ LoadResolve
                  \/ control.name \notin DOMAIN surveyAnswers
                  \/ surveyAnswers[control.name] = first)
                   => surveyAnswers'[control.name] = first]_vars

\* C12 witness: a group of two sliders is displayed, nothing was moved, and
\* both questions have the option at index 0 as their answer.
C12_DefaultsRecorded ==
  /\ session = "Showing"
  /\ StepDefined
  /\ notified = <<>>
  /\ Len(surveyArea.controls) = 2
  /\ \A c \in 1..2 :
       /\ surveyArea.controls[c].type = "slider"
       /\ surveyArea.controls[c].name \in DOMAIN surveyAnswers
       /\ surveyAnswers[surveyArea.controls[c].name] = At(surveyArea.controls[c].options, 0)

\* C13: an input change on a control of the displayed step sets the answer
\* of the question the control was rendered for to the selected option and
\* changes nothing else: index, questions, the displayed step and the answers
\* of every other ContentId stay as they were.
C13_InputFrame ==
  [][InputChange =>
       /\ currentQuestionIndex' = currentQuestionIndex
       /\ surveyData' = surveyData
       /\ session' = session
       /\ surveyArea' = surveyArea
       /\ \E c \in 1..Len(surveyArea.controls) :
            LET control == surveyArea.controls[c]
            IN \E k \in 0..(Len(control.options) - 1) :
                 /\ DOMAIN surveyAnswers' = DOMAIN surveyAnswers \cup {control.name}
                 /\ surveyAnswers'[control.name] = At(control.options, k)
                 /\ \A id \in DOMAIN surveyAnswers \ {control.name} :
                      surveyAnswers'[id] = surveyAnswers[id]]_vars

\* C13 witness: in a displayed group of two sliders the second one was moved
\* to its option at index 1 and the first one still has its default.
C13_SecondSliderMoved ==
  /\ session = "Showing"
  /\ StepDefined
  /\ Len(surveyArea.controls) = 2
  /\ \A c \in 1..2 :
       /\ surveyArea.controls[c].type = "slider"
       /\ surveyArea.controls[c].name \in DOMAIN surveyAnswers
  /\ surveyAnswers[surveyArea.controls[1].name] = At(surveyArea.controls[1].options, 0)
  /\ surveyAnswers[surveyArea.controls[2].name] = At(surveyArea.controls[2].options, 1)

\* the step the Renderer builds from questions[i], listeners attached
BuiltFrom(data, i) ==
  LET made == createQuestion(At(data, i), i, data).view
      related == findRelatedQuestions(data, i)
  IN [made EXCEPT !.controls =
        [c \in 1..Len(made.controls) |->
           [made.controls[c] EXCEPT
              !.listener = IF made.controls[c].type = "slider"
                             THEN related[c].ContentId
                             ELSE At(data, i).ContentId,
              !.count = 1]],
          !.nav = [b \in 1..Len(made.nav) |-> [made.nav[b] EXCEPT !.count = 1]]]

\* C14: in every state in which a step is displayed (Showing),
\* 0 <= currentIndex < len(questions) and the displayed step is the one built
\* from questions[currentIndex].
C14_IndexInRange ==
  (session = "Showing" /\ surveyArea.kind = "step") =>
    /\ 0 <= currentQuestionIndex
    /\ currentQuestionIndex < Len(surveyData)
    /\ surveyArea.index = currentQuestionIndex
    /\ surveyArea = BuiltFrom(surveyData, currentQuestionIndex)

\* the records a document carries, in either shape
Carried(document) ==
  IF document.hasData THEN document.data
  ELSE IF document.isArray THEN document.elements
  ELSE <<>>

IdsOf(records) == {records[i].ContentId : i \in 1..Len(records)}

\* C15: the Data Loader yields the records of data for { data: [...] }, the
\* records of the array for a bare array, and the empty list for any other
\* shape.
C15_BothShapes ==
  fnOutput.done =>
    /\ Len(fnOutput.list) = Len(Carried(fnInput))
    /\ IdsOf(fnOutput.list) = IdsOf(Carried(fnInput))

\* the record of a list that has the given ContentId
WithId(records, id) ==
  records[CHOOSE i \in 1..Len(records) : records[i].ContentId = id]

\* the comma-separated pieces of a string, each trimmed, in their order
Pieces(str) == [k \in 1..Len(Split(str)) |-> Trim(Split(str)[k])]

\* C16: after normalization every record whose Options arrived as a string
\* has as Options the list of its comma-separated pieces, trimmed, in order
\* ("A, B, C" gives A, B, C); a record whose Options is a list or absent keeps
\* its Options.
C16_OptionsNormalized ==
  (fnOutput.done /\ fnInput.hasData) =>
    \A i \in 1..Len(fnInput.data) :
      LET before == fnInput.data[i].Options
          after == WithId(fnOutput.list, fnInput.data[i].ContentId).Options
      IN /\ before.t = "string" => after = OptionsList(Pieces(before.s))
         /\ before.t # "string" => after = before
         /\ before = ThreeOptions.Options
              => after = OptionsList(<< <<"A">>, <<"B">>, <<"C">> >>)

OrdersOf(records) == [i \in 1..Len(records) |-> records[i].Order]

\* C17: the list the Data Loader returns for { data: [...] } is a permutation
\* of the received records (normalized) in which the integer value of Order
\* never decreases from one record to the next; Orders 2, 1, 3 come out as
\* 1, 2, 3.
C17_SortedByOrder ==
  (fnOutput.done /\ fnInput.hasData) =>
    /\ Len(fnOutput.list) = Len(fnInput.data)
    /\ {fnOutput.list[i] : i \in 1..Len(fnOutput.list)}
         = {normalizeOptions(fnInput.data[i]) : i \in 1..Len(fnInput.data)}
    /\ \A i \in 1..(Len(fnOutput.list) - 1) :
         parseInt(fnOutput.list[i].Order).val <= parseInt(fnOutput.list[i + 1].Order).val
    /\ OrdersOf(fnInput.data) = << <<"2">>, <<"1">>, <<"3">> >>
         => OrdersOf(fnOutput.list) = << <<"1">>, <<"2">>, <<"3">> >>

\* C17 witness: a document with Orders 2, 1, 3 has been loaded and the
\* result carries the Orders 1, 2, 3.
C17_ExampleSorted ==
  /\ fnOutput.done
  /\ fnInput.hasData
  /\ OrdersOf(fnInput.data) = << <<"2">>, <<"1">>, <<"3">> >>
  /\ OrdersOf(fnOutput.list) = << <<"1">>, <<"2">>, <<"3">> >>

HasColon(value) == \E k \in 1..Len(value) : value[k] = ":"

FirstColon(value) ==
  CHOOSE k \in 1..Len(value) :
    value[k] = ":" /\ \A j \in 1..(k - 1) : value[j] # ":"

\* the logicalPath of a value "<logicalPath>:<realPath>"
LogicalPath(value) == SubSeq(value, 1, FirstColon(value) - 1)

\* its realPath: the whole text after the colon separator
RealPath(value) == SubSeq(value, FirstColon(value) + 1, Len(value))

\* the positions of the mapping values of that form whose logicalPath is path
Matching(values, path) ==
  {i \in 1..Len(values) : HasColon(values[i]) /\ LogicalPath(values[i]) = path}

Min(S) == CHOOSE x \in S : \A y \in S : x <= y

\* C18: the fetch target is path itself when path ends with "json" (the
\* mapping document is then not fetched) or when no mapping value has path as
\* its logicalPath; otherwise it is the realPath, the whole text after the
\* colon separator, of the first mapping value whose logicalPath is path.
C18_FetchTarget ==
  fnOutput.done =>
    LET path == fnInput.surveyHref
        matching == Matching(fnInput.mappings, path)
    IN IF endsWith(path, <<"j", "s", "o", "n">>)
         THEN /\ ~fnOutput.mappingFetched
              /\ fnOutput.defined
              /\ fnOutput.mapping = path
         ELSE IF matching = {}
           THEN fnOutput.defined /\ fnOutput.mapping = path
           ELSE /\ fnOutput.defined
                /\ fnOutput.mapping = RealPath(fnInput.mappings[Min(matching)])

\* C19: once back from Showing(0) has restored the call-to-action, the
\* call-to-action is live again, after any number of activate / back cycles:
\* back leaves the button with its click listener, a click on it starts a new
\* load, and a load that succeeds starts a new session at Showing(0).
C19_CtaLiveAgain ==
  [][/\ (ClickBack /\ surveyArea.kind = "step" /\ currentQuestionIndex = 0)
          => /\ session' = "Idle"
             /\ hasClickListener(surveyArea')
     /\ (session = "Idle" /\ hasClickListener(surveyArea) /\ pending < MaxPending)
          => ENABLED ClickGetStarted
     /\ ClickGetStarted => pending' = pending + 1
     /\ (LoadResolve /\ session = "Idle" /\ notified' = <<>>)
          => /\ session' = "Showing"
             /\ currentQuestionIndex' = 0
             /\ surveyArea' = BuiltFrom(surveyData', 0)]_vars

\* C19 witness: after a session was left by back from its first step, the
\* call-to-action has been clicked again: the questions of the finished
\* session are still held, the session is Idle and loads are under way.
C19_Reactivated ==
  /\ session = "Idle"
  /\ surveyData # <<>>
  /\ hasClickListener(surveyArea)
  /\ pending = MaxPending

\* C20: decorate is idempotent per block: on a block that is already
\* decorated a further call changes nothing (survey area, listeners and
\* session state stay as they are), and two calls in a row leave what one
\* call leaves.
C20_DecorateIdempotent ==
  /\ decorated => decorate(Here) = Here
  /\ decorate(decorate(Here)) = decorate(Here)

\* C20 witness: a decorated block in the middle of a session, with an answer
\* recorded: a state a second decoration could disturb.
C20_DecoratedInSession ==
  /\ decorated
  /\ session = "Showing"
  /\ StepDefined
  /\ DOMAIN surveyAnswers # {}

----------------------------------------------------------------------------
\* C21: if the first region contains a background image, then once its
\* decode has resolved or failed the image markup is absent from the survey
\* area, in that state and in every later one, whatever the order of decode
\* completion, activation of the call-to-action and back navigation to Idle.
C21_PictureRemoved ==
  block.decode = "settled" => surveyArea.picture = "none"

\* the validation notification is up and the step is the one shown before
NextBlocked ==
  /\ Raised(notified') \cap ValidationMessages # {}
  /\ currentQuestionIndex' = currentQuestionIndex
  /\ session' = session
  /\ surveyArea' = surveyArea

\* C22: next from Showing(i) is blocked if and only if some member of the
\* group starting at i is a mandatory question without an answer; a group
\* whose members without answer are all fact records or non-mandatory
\* questions never blocks next.
C22_BlockedIffRequiredMissing ==
  [][(ClickNext /\ session = "Showing" /\ StepDefined) =>
       /\ NextBlocked <=>
            \E k \in DisplayedGroup :
              /\ At(surveyData, k).Mandatory = "TRUE"
              /\ At(surveyData, k).ContentType = "question"
              /\ At(surveyData, k).ContentId \notin DOMAIN surveyAnswers
       /\ (\A k \in DisplayedGroup :
             \/ At(surveyData, k).ContentType = "fact"
             \/ At(surveyData, k).Mandatory # "TRUE"
             \/ At(surveyData, k).ContentId \in DOMAIN surveyAnswers)
            => Raised(notified') \cap ValidationMessages = {}]_vars

\* C22 witness: next has passed a fact record marked Mandatory that has no
\* answer
C22_FactPassed ==
  /\ session = "Showing"
  /\ StepDefined
  /\ currentQuestionIndex > 0
  /\ At(surveyData, currentQuestionIndex - 1).ContentType = "fact"
  /\ At(surveyData, currentQuestionIndex - 1).Mandatory = "TRUE"
  /\ At(surveyData, currentQuestionIndex - 1).ContentId \notin DOMAIN surveyAnswers

\* the records of the list that are mandatory questions
RequiredIndices(data) ==
  {k \in 0..(Len(data) - 1) :
     At(data, k).Mandatory = "TRUE" /\ At(data, k).ContentType = "question"}

\* C23: whenever the session is Complete, answers holds an entry for every
\* record of questions that is a mandatory question, whatever list was
\* loaded and whatever activations, inputs, nexts and backs led there.
C23_CompleteMeansAnswered ==
  session = "Complete" =>
    \A k \in RequiredIndices(surveyData) :
      At(surveyData, k).ContentId \in DOMAIN surveyAnswers

\* C23 witness: the session is Complete for a list whose last step is a group
\* of two mandatory questions, both answered
C23_CompletedGroup ==
  /\ session = "Complete"
  /\ Len(surveyData) >= 2
  /\ Related(surveyData, Len(surveyData) - 2, Len(surveyData) - 1)
  /\ {Len(surveyData) - 2, Len(surveyData) - 1} \subseteq RequiredIndices(surveyData)
  /\ \A k \in RequiredIndices(surveyData) :
       At(surveyData, k).ContentId \in DOMAIN surveyAnswers

\* the displayed step has an input control whose listener records the answer
\* of record k
HasOwnControl(k) ==
  \E c \in 1..Len(surveyArea.controls) :
    /\ surveyArea.controls[c].listener = At(surveyData, k).ContentId
    /\ Len(surveyArea.controls[c].options) > 0

\* C24: in every reachable Showing(i), every question of the displayed group
\* that validation still waits for is presented with its own input control,
\* so that input events can make next pass and the survey can always be
\* driven to Complete.
C24_EveryRequiredHasControl ==
  (session = "Showing" /\ StepDefined) =>
    \A k \in Unanswered : HasOwnControl(k)

\* C25: in every reachable Showing(i), i is the start of a related-question
\* group: i = 0 or record i-1 is not in the group of record i; no sequence
\* of next and back events displays a later member of a group as a step of
\* its own.
C25_StepsAreGroupStarts ==
  (session = "Showing" /\ StepDefined) =>
    \/ currentQuestionIndex = 0
    \/ ~Related(surveyData, currentQuestionIndex - 1, currentQuestionIndex)

\* C25 witness: back has returned from the step after a two-member group to
\* the first member of that group (the later step has left its answer)
C25_BackAtGroupStart ==
  /\ session = "Showing"
  /\ StepDefined
  /\ Len(surveyData) >= 3
  /\ currentQuestionIndex = Len(surveyData) - 3
  /\ Related(surveyData, currentQuestionIndex, currentQuestionIndex + 1)
  /\ At(surveyData, currentQuestionIndex + 2).ContentId \in DOMAIN surveyAnswers

\* the displayed counter is the count of countable records up to the
\* current index, out of the count of all countable records
CounterMatches ==
  /\ surveyArea.questionsCompleted =
       Cardinality({k \in CountableIndices(surveyData) : k <= currentQuestionIndex})
  /\ surveyArea.totalActualQuestions = Cardinality(CountableIndices(surveyData))

CounterInRange ==
  /\ 0 <= surveyArea.questionsCompleted
  /\ surveyArea.questionsCompleted <= surveyArea.totalActualQuestions

\* C26: in every Showing state the displayed counter satisfies
\* 0 <= questionsCompleted <= total, questionsCompleted counting the
\* countable records in questions[0..currentIndex] and total all countable
\* records; next never decreases questionsCompleted, back never increases it.
C26_CounterMonotone ==
  [][/\ (session = "Showing" /\ surveyArea.kind = "step")' => CounterInRange'
     /\ (session = "Showing" /\ StepDefined)' => CounterMatches'
     /\ (ClickNext /\ session = "Showing" /\ StepDefined /\ surveyArea'.kind = "step")
          => surveyArea'.questionsCompleted >= surveyArea.questionsCompleted
     /\ (ClickBack /\ session = "Showing" /\ StepDefined /\ surveyArea'.kind = "step")
          => surveyArea'.questionsCompleted <= surveyArea.questionsCompleted]_vars

\* C26 witness: a later step is displayed whose counter is below the total
\* and below the number of records up to it: a record that does not count
\* lies before it
C26_CounterBehindIndex ==
  /\ session = "Showing"
  /\ StepDefined
  /\ currentQuestionIndex > 0
  /\ surveyArea.questionsCompleted >= 1
  /\ surveyArea.questionsCompleted < currentQuestionIndex + 1
  /\ surveyArea.questionsCompleted < surveyArea.totalActualQuestions

\* the options of a record, as the list the loader leaves
OptionsOf(record) ==
  IF IsArray(record.Options)
    THEN {record.Options.l[k] : k \in 1..Len(record.Options.l)}
    ELSE {}

\* C27: in every reachable state every key of answers is the ContentId of a
\* record of the current questions list and its value is one of that
\* record's Options, also across re-activation and loads that resolve late.
C27_AnswersBelongToList ==
  \A id \in DOMAIN surveyAnswers :
    \E k \in 0..(Len(surveyData) - 1) :
      /\ At(surveyData, k).ContentId = id
      /\ surveyAnswers[id] \in OptionsOf(At(surveyData, k))

\* no control of the area, no navigation button and no navigation event of
\* the area has more than one listener
SingleListeners ==
  /\ \A c \in 1..Len(surveyArea.controls) : surveyArea.controls[c].count <= 1
  /\ \A b \in 1..Len(surveyArea.nav) : surveyArea.nav[b].count <= 1
  /\ block.areaHandlers <= 1

\* this step is what one run of handleNavigation, with one handler of the
\* navigation event, makes of the state
OneNavigation(direction) ==
  LET one == handleNavigation([Here EXCEPT !.block.areaHandlers = 1], direction)
  IN /\ currentQuestionIndex' = one.currentQuestionIndex
     /\ session' = one.session
     /\ surveyArea' = one.surveyArea
     /\ surveyAnswers' = one.surveyAnswers
     /\ notified' = one.notified

\* C28: each click on Next or Back causes at most one navigation transition
\* and each click on the call-to-action starts exactly one load, in every
\* reachable state, also after returning to Idle and re-activating and after
\* duplicate loads have resolved: no live control carries a listener twice.
C28_OneListenerEach ==
  [][/\ SingleListeners'
     /\ ClickNext => OneNavigation("next")
     /\ ClickBack => OneNavigation("back")
     /\ ClickGetStarted => pending' = pending + 1]_vars

\* C28 witness: a step behind the first one is displayed, every load has
\* settled, and the navigation buttons and input controls of the step carry
\* one listener each
C28_LiveStepAfterNext ==
  /\ session = "Showing"
  /\ StepDefined
  /\ currentQuestionIndex > 0
  /\ pending = 0
  /\ Len(surveyArea.controls) > 0
  /\ \A c \in 1..Len(surveyArea.controls) : surveyArea.controls[c].count = 1
  /\ \A b \in 1..Len(surveyArea.nav) : surveyArea.nav[b].count = 1
  /\ block.areaHandlers = 1

----------------------------------------------------------------------------
(* The inline grouped revision: the first decorate of part_002.  Its
   renderer builds the same controls and buttons with other helper calls,
   and its input listeners are those of attachInputListeners; the progress
   loop, the navigation click handlers and the survey:back / survey:next
   handlers are written out differently and are modelled here as written. *)

\* for (let i = 0; i <= currentIndex; i += 1) if (... === 'TRUE') += 1
RECURSIVE inlineCountCompleted(_, _, _, _)
inlineCountCompleted(data, i, currentIndex, questionsCompleted) ==
  IF i > currentIndex THEN questionsCompleted
  ELSE inlineCountCompleted(data, i + 1, currentIndex,
         IF At(data, i).CountsAsQuestion = "TRUE" THEN questionsCompleted + 1
                                                  ELSE questionsCompleted)

inlineCalculateProgress(currentIndex, data) ==
  [questionsCompleted |-> inlineCountCompleted(data, 0, currentIndex, 0),
   totalActualQuestions |->
     Cardinality({i \in 1..Len(data) : data[i].CountsAsQuestion = "TRUE"})]

inlineCreateQuestion(questionData, currentIndex, data) ==
  LET made == createQuestion(questionData, currentIndex, data)
      p == inlineCalculateProgress(currentIndex, data)
  IN IF made.threw THEN made
     ELSE [made EXCEPT !.view = View("step", currentIndex, made.view.controls,
                                     p.questionsCompleted, p.totalActualQuestions)]

inlineShowQuestion(S, index) ==
  LET S1 == [S EXCEPT !.currentQuestionIndex = index]
  IN IF index >= Len(S.surveyData)
       THEN [S1 EXCEPT !.threw = TRUE]   \* questionData is undefined
       ELSE LET made == inlineCreateQuestion(At(S.surveyData, index), index,
                                             S.surveyData)
            IN IF made.threw
                 THEN [S1 EXCEPT !.threw = TRUE]
                 ELSE attachInputListeners(
                        attachNavigationListeners(
                          [S1 EXCEPT !.surveyArea = made.view,
                                     !.block = resetClassName(@),
                                     !.session = "Showing"]))

\* handleGetStartedClick behind its await
inlineStartSurvey(S, data) ==
  LET S1 == [S EXCEPT !.surveyData = parseSurveyData(data),
                      !.currentQuestionIndex = 0,
                      !.surveyAnswers = <<>>]
      shown == inlineShowQuestion(S1, 0)
  IN IF shown.threw
       THEN alert([shown EXCEPT !.threw = FALSE], "load-failed")
       ELSE shown

\* while (prevIndex > 0): the base id is taken anew from the record at
\* prevIndex in every round
RECURSIVE inlineWalkBack(_, _)
inlineWalkBack(data, prevIndex) ==
  IF prevIndex > 0
    THEN LET currentQ == At(data, prevIndex)
             baseId == StripSuffix(currentQ.ContentId)
             prevQ == At(data, prevIndex - 1)
             prevBaseId == StripSuffix(prevQ.ContentId)
         IN IF prevBaseId = baseId /\ prevBaseId # prevQ.ContentId
              THEN inlineWalkBack(data, prevIndex - 1)
              ELSE prevIndex
    ELSE prevIndex

\* surveyArea.addEventListener('survey:back', ...)
inlineOnSurveyBack(S) ==
  IF S.currentQuestionIndex = 0
    THEN attachGetStartedListener(
           [S EXCEPT !.surveyArea = S.originalContent, !.session = "Idle"])
    ELSE LET prevIndex == S.currentQuestionIndex - 1
         IN IF prevIndex >= Len(S.surveyData)
              THEN [S EXCEPT !.threw = TRUE]   \* targetQuestion is undefined
              ELSE LET targetQuestion == At(S.surveyData, prevIndex)
                       targetBaseId == StripSuffix(targetQuestion.ContentId)
                   IN IF targetBaseId # targetQuestion.ContentId
                        THEN inlineShowQuestion(S, inlineWalkBack(S.surveyData, prevIndex))
                        ELSE inlineShowQuestion(S, prevIndex)

\* surveyArea.addEventListener('survey:next', ...)
inlineOnSurveyNext(S) ==
  LET relatedQuestions == findRelatedQuestions(S.surveyData, S.currentQuestionIndex)
      questionsToSkip == Len(relatedQuestions) - 1
      nextIndex == S.currentQuestionIndex + 1 + questionsToSkip
  IN IF nextIndex < Len(S.surveyData)
       THEN inlineShowQuestion(S, nextIndex)
       ELSE [alert(S, "completed") EXCEPT !.session = "Complete"]

RECURSIVE inlineDispatchEvent(_, _, _)
inlineDispatchEvent(S, direction, n) ==
  IF n = 0 \/ S.threw THEN S
  ELSE inlineDispatchEvent(IF direction = "next" THEN inlineOnSurveyNext(S)
                                                 ELSE inlineOnSurveyBack(S),
                           direction, n - 1)

handleBackClick(S) == inlineDispatchEvent(S, "back", S.block.areaHandlers)

handleNextClick(S) ==
  IF S.currentQuestionIndex >= Len(S.surveyData)
    THEN [S EXCEPT !.threw = TRUE]   \* surveyData[startIndex] is undefined
    ELSE LET relatedQuestions ==
               findRelatedQuestions(S.surveyData, S.currentQuestionIndex)
             hasInvalidQuestion ==
               \E i \in 1..Len(relatedQuestions) :
                 /\ isAnswerRequired(relatedQuestions[i])
                 /\ ~hasValidAnswer(relatedQuestions[i], S.surveyAnswers)
         IN IF hasInvalidQuestion
              THEN alert(S, IF Len(relatedQuestions) > 1 THEN "select-all"
                                                         ELSE "select-one")
              ELSE inlineDispatchEvent(S, "next", S.block.areaHandlers)

\* a click on a navigation button of the inline revision
RECURSIVE inlineClickNavigation(_, _, _)
inlineClickNavigation(S, direction, n) ==
  IF n = 0 THEN S
  ELSE inlineClickNavigation(IF direction = "next" THEN handleNextClick(S)
                                                   ELSE handleBackClick(S),
                             direction, n - 1)

\* C29: the refactored revision and the inline grouped revision are
\* observationally equivalent: from every reachable state, a load that
\* resolves, a next and a back lead both revisions to the same session
\* state, displayed step, answers and notifications, so that for every
\* question list and every sequence of events they pass through the same
\* sequence of states.
C29_RevisionsAgree ==
  /\ \A surveyResponse \in Responses(bank) :
       inlineStartSurvey(Here, surveyResponse) = startSurvey(Here, surveyResponse)
  /\ surveyArea.kind = "step" =>
       /\ inlineClickNavigation(Here, "next", surveyArea.nav[2].count)
            = clickNavigation(Here, "next", surveyArea.nav[2].count)
       /\ inlineClickNavigation(Here, "back", surveyArea.nav[1].count)
            = clickNavigation(Here, "back", surveyArea.nav[1].count)

\* C29 witness: the step behind a group of two is displayed, and back leads
\* both revisions to the first member of the group
C29_BackOverGroup ==
  /\ session = "Showing"
  /\ StepDefined
  /\ currentQuestionIndex >= 2
  /\ Related(surveyData, currentQuestionIndex - 2, currentQuestionIndex - 1)
  /\ handleBackClick(Here).currentQuestionIndex = currentQuestionIndex - 2
  /\ handleNavigation(Here, "back").currentQuestionIndex = currentQuestionIndex - 2

RegionClasses == {"survey-area", "logo", "content", "footer-content"}

\* C30: for a block with any number (0 to 4) of child regions, decorate
\* completes and tags distinct regions: each of the classes survey-area,
\* logo, content and footer-content is on at most one element, and no
\* element carries two of them.
C30_DistinctRegions ==
  decorated =>
    /\ \A class \in RegionClasses :
         Cardinality({e \in 1..block.children : class \in block.classes[e]}) <= 1
    /\ \A e \in 1..block.children :
         Cardinality(block.classes[e] \cap RegionClasses) <= 1

====
